---- MODULE Spec2Model ----
(***************************************************************************)
(* Model of src/python/langextract_service.py: the request boundary        *)
(* (main, process_document), the per-span label resolver                   *)
(* (map_to_template) and the defaulting pass (fill_missing_fields).        *)
(*                                                                         *)
(* Python strings that the code inspects character by character (labels,   *)
(* span texts, the default placeholder) are sequences of one-character     *)
(* strings, so that lower(), replace(), the substring tests, len() and     *)
(* string concatenation are computed, not assumed.  Dictionary keys that   *)
(* the code only uses as names (schema field names) are TLA+ strings.      *)
(* Every value stored in the document carries its Python type in kind:     *)
(* "str", "list" (of str) or "dict" (insertion-ordered label -> str).      *)
(***************************************************************************)
EXTENDS Integers, Sequences, FiniteSets, TLC

VARIABLES
    pc,                 \* position of the request in main / process_document
    request,            \* what main reads from stdin
    template,           \* load_template(): section -> field -> field type
    params,             \* load_params(): the fill_missing settings
    extractions,        \* result.extractions returned by lx.extract
    next_i,             \* number of extractions the assembly loop has consumed
    structured_result,  \* the document being built, with its citations
    response,           \* what main prints
    raised              \* TRUE when an exception left main uncaught

vars == <<pc, request, template, params, extractions, next_i,
          structured_result, response, raised>>

----------------------------------------------------------------------------
(* Bounds of the model.                                                    *)

\* Longest extraction sequence drawn from one family of related spans.
MaxSpans == 3

----------------------------------------------------------------------------
(* String literals of the source, as character sequences.                  *)

Term ==
    [ successor |-> <<"s", "u", "c", "c", "e", "s", "s", "o", "r">>
    , alternate |-> <<"a", "l", "t", "e", "r", "n", "a", "t", "e">>
    , backup |-> <<"b", "a", "c", "k", "u", "p">>
    , secondary |-> <<"s", "e", "c", "o", "n", "d", "a", "r", "y">>
    , contingent |-> <<"c", "o", "n", "t", "i", "n", "g", "e", "n", "t">>
    , upondeath |-> <<"u", "p", "o", "n", "d", "e", "a", "t", "h">>
    , ifno |-> <<"i", "f", "n", "o">>
    , remainder |-> <<"r", "e", "m", "a", "i", "n", "d", "e", "r">>
    , initial |-> <<"i", "n", "i", "t", "i", "a", "l">>
    , current |-> <<"c", "u", "r", "r", "e", "n", "t">>
    , primary |-> <<"p", "r", "i", "m", "a", "r", "y">>
    , first |-> <<"f", "i", "r", "s", "t">>
    , lifetime |-> <<"l", "i", "f", "e", "t", "i", "m", "e">>
    , living |-> <<"l", "i", "v", "i", "n", "g">>
    , duringlife |-> <<"d", "u", "r", "i", "n", "g", "l", "i", "f", "e">>
    , trustname |-> <<"t", "r", "u", "s", "t", "n", "a", "m", "e">>
    , trusttype |-> <<"t", "r", "u", "s", "t", "t", "y", "p", "e">>
    , effectivedate |-> <<"e", "f", "f", "e", "c", "t", "i", "v", "e", "d", "a", "t", "e">>
    , trustdate |-> <<"t", "r", "u", "s", "t", "d", "a", "t", "e">>
    , grantor |-> <<"g", "r", "a", "n", "t", "o", "r">>
    , settlor |-> <<"s", "e", "t", "t", "l", "o", "r">>
    , trustor |-> <<"t", "r", "u", "s", "t", "o", "r">>
    , trusteepowers |-> <<"t", "r", "u", "s", "t", "e", "e", "p", "o", "w", "e", "r", "s">>
    , trusteepower |-> <<"t", "r", "u", "s", "t", "e", "e", "p", "o", "w", "e", "r">>
    , trustee |-> <<"t", "r", "u", "s", "t", "e", "e">>
    , special |-> <<"s", "p", "e", "c", "i", "a", "l">>
    , committee |-> <<"c", "o", "m", "m", "i", "t", "t", "e", "e">>
    , beneficiar |-> <<"b", "e", "n", "e", "f", "i", "c", "i", "a", "r">>
    , duringgrantorslife |-> <<"d", "u", "r", "i", "n", "g", "g", "r", "a", "n", "t", "o", "r", "s", "l", "i", "f", "e">>
    , purpose |-> <<"p", "u", "r", "p", "o", "s", "e">>
    , intent |-> <<"i", "n", "t", "e", "n", "t">>
    , howthetrustwork |-> <<"h", "o", "w", "t", "h", "e", "t", "r", "u", "s", "t", "w", "o", "r", "k">>
    , howthetrust |-> <<"h", "o", "w", "t", "h", "e", "t", "r", "u", "s", "t">>
    , operation |-> <<"o", "p", "e", "r", "a", "t", "i", "o", "n">>
    , distribution |-> <<"d", "i", "s", "t", "r", "i", "b", "u", "t", "i", "o", "n">>
    , power |-> <<"p", "o", "w", "e", "r">>
    , duties |-> <<"d", "u", "t", "i", "e", "s">>
    , amendment |-> <<"a", "m", "e", "n", "d", "m", "e", "n", "t">>
    , termination |-> <<"t", "e", "r", "m", "i", "n", "a", "t", "i", "o", "n">>
    , provision |-> <<"p", "r", "o", "v", "i", "s", "i", "o", "n">>
    , taxid |-> <<"t", "a", "x", "i", "d">>
    , ein |-> <<"e", "i", "n">>
    , stateofformation |-> <<"s", "t", "a", "t", "e", "o", "f", "f", "o", "r", "m", "a", "t", "i", "o", "n">>
    , governinglaw |-> <<"g", "o", "v", "e", "r", "n", "i", "n", "g", "l", "a", "w">>
    , trustprotector |-> <<"t", "r", "u", "s", "t", "p", "r", "o", "t", "e", "c", "t", "o", "r">>
    , investmentadvisor |-> <<"i", "n", "v", "e", "s", "t", "m", "e", "n", "t", "a", "d", "v", "i", "s", "o", "r">>
    , distributionadvisor |-> <<"d", "i", "s", "t", "r", "i", "b", "u", "t", "i", "o", "n", "a", "d", "v", "i", "s", "o", "r">>
    , gsttax |-> <<"g", "s", "t", "t", "a", "x">>
    , gstplanning |-> <<"g", "s", "t", "p", "l", "a", "n", "n", "i", "n", "g">>
    , maritaldeduction |-> <<"m", "a", "r", "i", "t", "a", "l", "d", "e", "d", "u", "c", "t", "i", "o", "n">>
    , lawfirm |-> <<"l", "a", "w", "f", "i", "r", "m">>
    , trustsitus |-> <<"t", "r", "u", "s", "t", "s", "i", "t", "u", "s">>
    , situs |-> <<"s", "i", "t", "u", "s">>
    , spendthrift |-> <<"s", "p", "e", "n", "d", "t", "h", "r", "i", "f", "t">>
    , nocontest |-> <<"n", "o", "c", "o", "n", "t", "e", "s", "t">>
    , advisor |-> <<"a", "d", "v", "i", "s", "o", "r">>
    , adviser |-> <<"a", "d", "v", "i", "s", "e", "r">>
    , protector |-> <<"p", "r", "o", "t", "e", "c", "t", "o", "r">>
    , manager |-> <<"m", "a", "n", "a", "g", "e", "r">>
    , advocate |-> <<"a", "d", "v", "o", "c", "a", "t", "e">>
    , guardian |-> <<"g", "u", "a", "r", "d", "i", "a", "n">> ]

Label ==
    [ trust_name |-> <<"t", "r", "u", "s", "t", "_", "n", "a", "m", "e">>
    , trust_type |-> <<"t", "r", "u", "s", "t", "_", "t", "y", "p", "e">>
    , effective_date |-> <<"e", "f", "f", "e", "c", "t", "i", "v", "e", "_", "d", "a", "t", "e">>
    , grantor |-> <<"g", "r", "a", "n", "t", "o", "r">>
    , settlor |-> <<"s", "e", "t", "t", "l", "o", "r">>
    , successor_grantor |-> <<"s", "u", "c", "c", "e", "s", "s", "o", "r", "_", "g", "r", "a", "n", "t", "o", "r">>
    , trustee_powers |-> <<"t", "r", "u", "s", "t", "e", "e", "_", "p", "o", "w", "e", "r", "s">>
    , Trustee_Powers_and_Duties |-> <<"T", "r", "u", "s", "t", "e", "e", "_", "P", "o", "w", "e", "r", "s", "_", "a", "n", "d", "_", "D", "u", "t", "i", "e", "s">>
    , powers_of_trustee |-> <<"p", "o", "w", "e", "r", "s", "_", "o", "f", "_", "t", "r", "u", "s", "t", "e", "e">>
    , trustee |-> <<"t", "r", "u", "s", "t", "e", "e">>
    , successor_trustee |-> <<"s", "u", "c", "c", "e", "s", "s", "o", "r", "_", "t", "r", "u", "s", "t", "e", "e">>
    , special_trustee |-> <<"s", "p", "e", "c", "i", "a", "l", "_", "t", "r", "u", "s", "t", "e", "e">>
    , beneficiary |-> <<"b", "e", "n", "e", "f", "i", "c", "i", "a", "r", "y">>
    , lifetime_beneficiary |-> <<"l", "i", "f", "e", "t", "i", "m", "e", "_", "b", "e", "n", "e", "f", "i", "c", "i", "a", "r", "y">>
    , contingent_beneficiary |-> <<"c", "o", "n", "t", "i", "n", "g", "e", "n", "t", "_", "b", "e", "n", "e", "f", "i", "c", "i", "a", "r", "y">>
    , primary_beneficiary |-> <<"p", "r", "i", "m", "a", "r", "y", "_", "b", "e", "n", "e", "f", "i", "c", "i", "a", "r", "y">>
    , upon_death_beneficiary |-> <<"u", "p", "o", "n", "_", "d", "e", "a", "t", "h", "_", "b", "e", "n", "e", "f", "i", "c", "i", "a", "r", "y">>
    , contingent_primary_beneficiary |-> <<"c", "o", "n", "t", "i", "n", "g", "e", "n", "t", "_", "p", "r", "i", "m", "a", "r", "y", "_", "b", "e", "n", "e", "f", "i", "c", "i", "a", "r", "y">>
    , purpose |-> <<"p", "u", "r", "p", "o", "s", "e">>
    , trust_operation |-> <<"t", "r", "u", "s", "t", "_", "o", "p", "e", "r", "a", "t", "i", "o", "n">>
    , distribution |-> <<"d", "i", "s", "t", "r", "i", "b", "u", "t", "i", "o", "n">>
    , powers |-> <<"p", "o", "w", "e", "r", "s">>
    , amendment |-> <<"a", "m", "e", "n", "d", "m", "e", "n", "t">>
    , special_provisions |-> <<"s", "p", "e", "c", "i", "a", "l", "_", "p", "r", "o", "v", "i", "s", "i", "o", "n", "s">>
    , tax_id |-> <<"t", "a", "x", "_", "i", "d">>
    , state_of_formation |-> <<"s", "t", "a", "t", "e", "_", "o", "f", "_", "f", "o", "r", "m", "a", "t", "i", "o", "n">>
    , trust_protector |-> <<"t", "r", "u", "s", "t", "_", "p", "r", "o", "t", "e", "c", "t", "o", "r">>
    , investment_advisor |-> <<"i", "n", "v", "e", "s", "t", "m", "e", "n", "t", "_", "a", "d", "v", "i", "s", "o", "r">>
    , distribution_advisor |-> <<"d", "i", "s", "t", "r", "i", "b", "u", "t", "i", "o", "n", "_", "a", "d", "v", "i", "s", "o", "r">>
    , gst_planning |-> <<"g", "s", "t", "_", "p", "l", "a", "n", "n", "i", "n", "g">>
    , marital_deduction |-> <<"m", "a", "r", "i", "t", "a", "l", "_", "d", "e", "d", "u", "c", "t", "i", "o", "n">>
    , law_firm |-> <<"l", "a", "w", "_", "f", "i", "r", "m">>
    , trust_situs |-> <<"t", "r", "u", "s", "t", "_", "s", "i", "t", "u", "s">>
    , spendthrift_clause |-> <<"s", "p", "e", "n", "d", "t", "h", "r", "i", "f", "t", "_", "c", "l", "a", "u", "s", "e">>
    , no_contest_clause |-> <<"n", "o", "_", "c", "o", "n", "t", "e", "s", "t", "_", "c", "l", "a", "u", "s", "e">>
    , guardian |-> <<"g", "u", "a", "r", "d", "i", "a", "n">>
    , notes |-> <<"n", "o", "t", "e", "s">>
    , Misc_Note |-> <<"M", "i", "s", "c", "-", "N", "o", "t", "e">>
    , Side_Letter |-> <<"S", "i", "d", "e", " ", "L", "e", "t", "t", "e", "r">> ]

NotSpecified == <<"N", "o", "t", " ", "s", "p", "e", "c", "i", "f", "i", "e", "d">>
Space == <<" ">>
Upper == <<"A", "B", "C", "D", "E", "F", "G", "H", "I", "J", "K", "L", "M", "N", "O", "P", "Q", "R", "S", "T", "U", "V", "W", "X", "Y", "Z">>
Lower == <<"a", "b", "c", "d", "e", "f", "g", "h", "i", "j", "k", "l", "m", "n", "o", "p", "q", "r", "s", "t", "u", "v", "w", "x", "y", "z">>
Yes == <<"y", "e", "s">>
No == <<"n", "o">>

----------------------------------------------------------------------------
(* Python string and container operations used by the source.              *)

\* str.lower() on one character (line 286).
LowerChar(c) ==
    IF \E i \in 1..Len(Upper) : Upper[i] = c
    THEN Lower[CHOOSE i \in 1..Len(Upper) : Upper[i] = c]
    ELSE c

\* class_name.lower().replace('_', '').replace(' ', '').replace('-', '')
RECURSIVE Normalize(_)
Normalize(class_name) ==
    IF class_name = <<>> THEN <<>>
    ELSE LET c == LowerChar(Head(class_name))
             rest == Normalize(Tail(class_name))
         IN  IF c \in {"_", " ", "-"} THEN rest ELSE <<c>> \o rest

\* `term in normalized` for two strings: term occurs as a contiguous substring.
Contains(s, term) ==
    \E i \in 0..(Len(s) - Len(term)) :
        \A j \in 1..Len(term) : s[i + j] = term[j]

\* any(term in normalized for term in terms)
ContainsAny(s, terms) == \E term \in terms : Contains(s, term)

\* Values stored in the document, tagged with their Python type.
Str(t) == [kind |-> "str", val |-> t]
List(l) == [kind |-> "list", val |-> l]
Dict(d) == [kind |-> "dict", val |-> d]

\* The empty section {} and section[field] = value.
EmptySection == [f \in {} |-> Str(<<>>)]
Put(section, field, value) ==
    [f \in (DOMAIN section) \cup {field} |->
        IF f = field THEN value ELSE section[f]]

\* d[key] = text on an insertion-ordered dict held as a sequence of
\* <<key, text>> pairs: an existing key keeps its position.
DictSet(d, key, text) ==
    IF \E i \in 1..Len(d) : d[i][1] = key
    THEN [i \in 1..Len(d) |-> IF d[i][1] = key THEN <<key, text>> ELSE d[i]]
    ELSE Append(d, <<key, text>>)

\* result[section][field] = value
SetField(result, section, field, value) ==
    [result EXCEPT ![section] = Put(result[section], field, value)]

\* The narrative idiom (lines 319-322, 366-400): set the field, or append
\* ' ' + text to the text it holds.
AppendScalar(result, section, field, text) ==
    IF field \notin DOMAIN result[section]
    THEN SetField(result, section, field, Str(text))
    ELSE SetField(result, section, field,
                  Str(result[section][field].val \o Space \o text))

\* The list idiom without its membership test.
AppendAlways(result, section, field, text) ==
    LET r1 == IF field \notin DOMAIN result[section]
              THEN SetField(result, section, field, List(<<>>))
              ELSE result
    IN  SetField(r1, section, field, List(Append(r1[section][field].val, text)))

\* The list idiom (lines 312-315, 333-362): create the list when absent,
\* append the text unless the list already holds it.
AppendUnique(result, section, field, text) ==
    LET r1 == IF field \notin DOMAIN result[section]
              THEN SetField(result, section, field, List(<<>>))
              ELSE result
        l  == r1[section][field].val
    IN  IF \E i \in 1..Len(l) : l[i] = text
        THEN r1
        ELSE SetField(r1, section, field, List(Append(l, text)))

\* The open-map idiom (lines 329-331, 439-442, 456-458): create
\* Details.Other_Provisions when absent, then set [class_name] = text.
InsertOtherProvisions(result, class_name, text) ==
    LET r1 == IF "Other_Provisions" \notin DOMAIN result.Details
              THEN SetField(result, "Details", "Other_Provisions", Dict(<<>>))
              ELSE result
    IN  SetField(r1, "Details", "Other_Provisions",
                 Dict(DictSet(r1.Details["Other_Provisions"].val, class_name, text)))

\* Lines 449-453: create Summary.Other_Summary_Provisions when absent,
\* replace it by {} when it is not a dict, then set [class_name] = text.
InsertOtherSummaryProvisions(result, class_name, text) ==
    LET r1 == IF "Other_Summary_Provisions" \notin DOMAIN result.Summary
              THEN SetField(result, "Summary", "Other_Summary_Provisions", Dict(<<>>))
              ELSE result
        r2 == IF r1.Summary["Other_Summary_Provisions"].kind # "dict"
              THEN SetField(r1, "Summary", "Other_Summary_Provisions", Dict(<<>>))
              ELSE r1
    IN  SetField(r2, "Summary", "Other_Summary_Provisions",
                 Dict(DictSet(r2.Summary["Other_Summary_Provisions"].val, class_name, text)))

\* 'yes' if text else 'no'
YesNo(text) == IF text # <<>> THEN Yes ELSE No

\* The length above which an unmapped text goes to the Summary fallback.
SummaryLength == 100

----------------------------------------------------------------------------
(* map_to_template: the modifier predicates and the if/elif chain.         *)

is_successor(n) ==
    ContainsAny(n, {Term.successor, Term.alternate, Term.backup, Term.secondary})
is_contingent(n) ==
    ContainsAny(n, {Term.contingent, Term.upondeath, Term.ifno, Term.remainder})
is_initial(n) ==
    ContainsAny(n, {Term.initial, Term.current, Term.primary, Term.first})
is_lifetime(n) ==
    ContainsAny(n, {Term.lifetime, Term.living, Term.duringlife})

\* The branch of the if/elif chain (and of the nested if inside the grantor,
\* trustee and beneficiary branches) that a normalized label takes.
Branch(n) ==
    IF Contains(n, Term.trustname) THEN "Trust_Name"
    ELSE IF Contains(n, Term.trusttype) THEN "Trust_Type"
    ELSE IF Contains(n, Term.effectivedate) \/ Contains(n, Term.trustdate)
        THEN "Effective_Date"
    ELSE IF ContainsAny(n, {Term.grantor, Term.settlor, Term.trustor})
        THEN IF ~is_successor(n) THEN "Grantor(s)" ELSE "grantor_no_write"
    ELSE IF Contains(n, Term.trusteepowers) \/ Contains(n, Term.trusteepower)
        THEN "trustee_powers"
    ELSE IF Contains(n, Term.trustee)
        THEN IF Contains(n, Term.special) \/ Contains(n, Term.committee)
                 THEN "special_trustee"
             ELSE IF is_successor(n) THEN "Successor_Trustee(s)"
             ELSE "Trustee(s)"
    ELSE IF Contains(n, Term.beneficiar)
        THEN IF is_lifetime(n) \/ Contains(n, Term.duringgrantorslife)
                 THEN "lifetime_beneficiary"
             ELSE IF is_contingent(n) \/ Contains(n, Term.remainder)
                        \/ Contains(n, Term.alternate)
                 THEN "Contingent_Beneficiaries"
             ELSE IF Contains(n, Term.primary) \/ is_initial(n)
                        \/ Contains(n, Term.upondeath)
                 THEN "Primary_Beneficiaries"
             ELSE "beneficiary_no_write"
    ELSE IF Contains(n, Term.purpose) \/ Contains(n, Term.intent)
        THEN "Purpose_and_Intent"
    ELSE IF Contains(n, Term.howthetrustwork) \/ Contains(n, Term.howthetrust)
               \/ Contains(n, Term.operation)
        THEN "How_the_Trust_Works"
    ELSE IF Contains(n, Term.distribution) THEN "Distribution_Provisions"
    ELSE IF Contains(n, Term.power) \/ Contains(n, Term.duties)
        THEN "power_or_duties"
    ELSE IF Contains(n, Term.amendment) \/ Contains(n, Term.termination)
        THEN "Amendment_and_Termination"
    ELSE IF Contains(n, Term.special) /\ Contains(n, Term.provision)
        THEN "Special_Provisions"
    ELSE IF Contains(n, Term.taxid) \/ Contains(n, Term.ein)
        THEN "Trust_Tax_ID/EIN"
    ELSE IF Contains(n, Term.stateofformation) \/ Contains(n, Term.governinglaw)
        THEN "State_of_Formation"
    ELSE IF Contains(n, Term.trustprotector) THEN "Trust_Protector"
    ELSE IF Contains(n, Term.investmentadvisor) THEN "Investment_Advisor"
    ELSE IF Contains(n, Term.distributionadvisor) THEN "Distribution_Advisor"
    ELSE IF Contains(n, Term.gsttax) \/ Contains(n, Term.gstplanning)
        THEN "GST_Tax_Planning"
    ELSE IF Contains(n, Term.maritaldeduction) THEN "Marital_Deduction"
    ELSE IF Contains(n, Term.lawfirm) THEN "Law_Firm"
    ELSE IF Contains(n, Term.trustsitus) \/ Contains(n, Term.situs)
        THEN "Trust_Situs"
    ELSE IF Contains(n, Term.spendthrift) THEN "Spendthrift_Provision"
    ELSE IF Contains(n, Term.nocontest) THEN "No-Contest_Clause"
    ELSE IF ContainsAny(n, {Term.advisor, Term.adviser, Term.committee,
                            Term.protector, Term.manager, Term.advocate,
                            Term.guardian})
        THEN "specialized_role"
    ELSE "unmapped"

\* The catch-all with the threshold test written >= instead of >.
FallbackAtLeast(class_name, text, result) ==
    IF Len(text) >= SummaryLength
    THEN InsertOtherSummaryProvisions(result, class_name, text)
    ELSE InsertOtherProvisions(result, class_name, text)

\* The ultimate catch-all (lines 445-458): by text length, into the Summary
\* or the Details open map, under the original class name.
Fallback(class_name, text, result) ==
    IF Len(text) > SummaryLength
    THEN InsertOtherSummaryProvisions(result, class_name, text)
    ELSE InsertOtherProvisions(result, class_name, text)

\* map_to_template(class_name, text, result): the document after the call.
map_to_template(class_name, text, result) ==
    LET b == Branch(Normalize(class_name)) IN
    CASE b \in {"Trust_Name", "Trust_Type", "Effective_Date"} ->
            SetField(result, "Basic_Information", b, Str(text))
      [] b \in {"Grantor(s)", "Successor_Trustee(s)", "Trustee(s)",
                "Contingent_Beneficiaries", "Primary_Beneficiaries"} ->
            AppendUnique(result, "Basic_Information", b, text)
      [] b = "lifetime_beneficiary" ->
            AppendUnique(result, "Basic_Information", "Primary_Beneficiaries", text)
      [] b \in {"grantor_no_write", "beneficiary_no_write"} -> result
      [] b \in {"trustee_powers", "power_or_duties"} ->
            AppendScalar(result, "Summary", "Trustee_Powers_and_Duties", text)
      [] b \in {"Purpose_and_Intent", "How_the_Trust_Works",
                "Distribution_Provisions", "Amendment_and_Termination",
                "Special_Provisions"} ->
            AppendScalar(result, "Summary", b, text)
      [] b \in {"Trust_Tax_ID/EIN", "State_of_Formation", "Trust_Protector",
                "Investment_Advisor", "Distribution_Advisor", "GST_Tax_Planning",
                "Marital_Deduction", "Law_Firm", "Trust_Situs"} ->
            SetField(result, "Details", b, Str(text))
      [] b \in {"Spendthrift_Provision", "No-Contest_Clause"} ->
            SetField(result, "Details", b, Str(YesNo(text)))
      [] b \in {"special_trustee", "specialized_role"} ->
            InsertOtherProvisions(result, class_name, text)
      [] b = "unmapped" -> Fallback(class_name, text, result)

----------------------------------------------------------------------------
(* fill_missing_fields.  A template field type is the JSON value the       *)
(* template file gives the field; the code asks only whether it is a list  *)
(* (isinstance(field_type, list)) or the string 'yes_no', so the model     *)
(* holds "list" for a JSON list, "dict" for a JSON object and the string   *)
(* itself ("yes_no", "string") for a JSON string.                          *)

\* The Basic_Information pass giving every list field the placeholder as an
\* element instead of creating the list only when it is absent.
FillBasicInformationAppending(section, template_section, default_value) ==
    [field \in (DOMAIN section) \cup (DOMAIN template_section) |->
        IF field \in DOMAIN template_section /\ template_section[field] = "list"
        THEN IF field \in DOMAIN section /\ section[field].kind = "list"
             THEN List(Append(section[field].val, default_value.val))
             ELSE List(<<default_value.val>>)
        ELSE IF field \in DOMAIN section THEN section[field]
        ELSE default_value]

\* Lines 464-470.
FillBasicInformation(section, template_section, default_value) ==
    [field \in (DOMAIN section) \cup (DOMAIN template_section) |->
        IF field \in DOMAIN section THEN section[field]
        ELSE IF template_section[field] = "list" THEN List(<<>>)
        ELSE default_value]

\* The Summary pass testing `not result['Summary'].get(field)` instead of
\* `field not in result['Summary']`: an empty value counts as missing.
FillSummaryIfFalsy(section, template_section, default_value) ==
    [field \in (DOMAIN section) \cup (DOMAIN template_section) |->
        IF field \in DOMAIN section
           /\ (field \notin DOMAIN template_section \/ section[field].val # <<>>)
        THEN section[field]
        ELSE IF field = "Other_Summary_Provisions" THEN Dict(<<>>)
        ELSE default_value]

\* Lines 473-479.
FillSummary(section, template_section, default_value) ==
    [field \in (DOMAIN section) \cup (DOMAIN template_section) |->
        IF field \in DOMAIN section THEN section[field]
        ELSE IF field = "Other_Summary_Provisions" THEN Dict(<<>>)
        ELSE default_value]

\* Lines 482-490.
FillDetails(section, template_section, default_value) ==
    [field \in (DOMAIN section) \cup (DOMAIN template_section) |->
        IF field \in DOMAIN section THEN section[field]
        ELSE IF field = "Other_Provisions" THEN Dict(<<>>)
        ELSE IF template_section[field] = "yes_no" THEN Str(No)
        ELSE default_value]

\* fill_missing_fields(result, template, default_value): the document after
\* the call.  A section the template does not name is left alone.
fill_missing_fields(result, tmpl, default_value) ==
    [ Basic_Information |->
          IF "Basic_Information" \in DOMAIN tmpl
          THEN FillBasicInformation(result.Basic_Information,
                                    tmpl["Basic_Information"], default_value)
          ELSE result.Basic_Information,
      Summary |->
          IF "Summary" \in DOMAIN tmpl
          THEN FillSummary(result.Summary, tmpl["Summary"], default_value)
          ELSE result.Summary,
      Details |->
          IF "Details" \in DOMAIN tmpl
          THEN FillDetails(result.Details, tmpl["Details"], default_value)
          ELSE result.Details,
      citations |-> result.citations ]

----------------------------------------------------------------------------
(* process_document: the citation of one extraction and the fresh document. *)

\* An extraction of the engine; char_interval is <<>> when the extraction
\* has none, else <<start_pos, end_pos>>.
Extraction(class_name, text, char_interval) ==
    [extraction_class |-> class_name, extraction_text |-> text,
     char_interval |-> char_interval]

\* Lines 241-256.
Citation(extraction) ==
    LET text == extraction.extraction_text
        has_interval == extraction.char_interval # <<>>
    IN  [ citation_key |-> extraction.extraction_class,
          full_text |-> text,
          location |->
              [ start |-> IF has_interval THEN extraction.char_interval[1] ELSE 0,
                end |-> IF has_interval THEN extraction.char_interval[2]
                        ELSE Len(text) ] ]

\* Lines 227-232.
EmptyResult ==
    [ Basic_Information |-> EmptySection, Summary |-> EmptySection,
      Details |-> EmptySection, citations |-> <<>> ]

\* The loop body recording a citation only for a span that was written
\* into the document.
AssembleOneCitingMapped(result, extraction) ==
    LET mapped == map_to_template(extraction.extraction_class,
                                  extraction.extraction_text, result)
    IN  IF mapped = result THEN result
        ELSE [mapped EXCEPT !.citations = Append(result.citations, Citation(extraction))]

\* Lines 257-260: one pass of the loop body.
AssembleOne(result, extraction) ==
    map_to_template(extraction.extraction_class, extraction.extraction_text,
        [result EXCEPT !.citations = Append(result.citations, Citation(extraction))])

\* The responses main can print.
NoResponse == [keys |-> {}, transformed |-> EmptyResult]
ValidationError == [keys |-> {"error"}, transformed |-> EmptyResult]
CaughtError == [keys |-> {"error", "type", "traceback"}, transformed |-> EmptyResult]
Success(result) ==
    [keys |-> {"original_langextract", "transformed"}, transformed |-> result]

----------------------------------------------------------------------------
(* Inputs: the configuration files and what the extraction engine returns. *)

\* A template that declares every field map_to_template can write, each of
\* the kind map_to_template writes there.
StandardTemplate ==
    [ Basic_Information |->
        [ f \in {"Trust_Name", "Trust_Type", "Effective_Date", "Grantor(s)",
                 "Trustee(s)", "Successor_Trustee(s)", "Primary_Beneficiaries",
                 "Contingent_Beneficiaries"} |->
            IF f \in {"Trust_Name", "Trust_Type", "Effective_Date"}
            THEN "string" ELSE "list" ],
      Summary |->
        [ f \in {"Purpose_and_Intent", "How_the_Trust_Works",
                 "Distribution_Provisions", "Trustee_Powers_and_Duties",
                 "Amendment_and_Termination", "Special_Provisions",
                 "Other_Summary_Provisions"} |->
            IF f = "Other_Summary_Provisions" THEN "dict" ELSE "string" ],
      Details |->
        [ f \in {"Trust_Tax_ID/EIN", "State_of_Formation", "Trust_Protector",
                 "Investment_Advisor", "Distribution_Advisor", "GST_Tax_Planning",
                 "Marital_Deduction", "Law_Firm", "Trust_Situs",
                 "Spendthrift_Provision", "No-Contest_Clause",
                 "Other_Provisions"} |->
            IF f \in {"Spendthrift_Provision", "No-Contest_Clause"} THEN "yes_no"
            ELSE IF f = "Other_Provisions" THEN "dict" ELSE "string" ] ]

\* A template that declares list, yes/no and open-map fields in each section.
MixedTemplate ==
    [ Basic_Information |->
        [ f \in {"Trust_Name", "Grantor(s)", "Revocable", "Schedules"} |->
            CASE f = "Trust_Name" -> "string" [] f = "Grantor(s)" -> "list"
              [] f = "Revocable" -> "yes_no" [] f = "Schedules" -> "dict" ],
      Summary |->
        [ f \in {"Purpose_and_Intent", "Key_Dates", "Funded",
                 "Other_Summary_Provisions"} |->
            CASE f = "Purpose_and_Intent" -> "string" [] f = "Key_Dates" -> "list"
              [] f = "Funded" -> "yes_no"
              [] f = "Other_Summary_Provisions" -> "dict" ],
      Details |->
        [ f \in {"Law_Firm", "Co_Trustees", "Spendthrift_Provision",
                 "Other_Provisions", "Exhibits"} |->
            CASE f = "Law_Firm" -> "string" [] f = "Co_Trustees" -> "list"
              [] f = "Spendthrift_Provision" -> "yes_no"
              [] f = "Other_Provisions" -> "dict" [] f = "Exhibits" -> "dict" ] ]

\* A template with a single section.
DetailsOnlyTemplate ==
    [ s \in {"Details"} |->
        [ f \in {"Spendthrift_Provision", "Trust_Situs", "Other_Provisions"} |->
            CASE f = "Spendthrift_Provision" -> "yes_no"
              [] f = "Trust_Situs" -> "string" [] f = "Other_Provisions" -> "dict" ] ]

Templates == {StandardTemplate, MixedTemplate, DetailsOnlyTemplate}

\* params['fill_missing']: enabled (default True) and default_value
\* (default 'Not specified'), lines 263-265.
Params == [enabled : BOOLEAN, default_value : {Str(NotSpecified)}]

\* Span texts: short ones, the empty one, and one on each side of the
\* fallback threshold.
A == <<"A">>
B == <<"B">>
AtThreshold == [i \in 1..SummaryLength |-> "x"]
OverThreshold == [i \in 1..(SummaryLength + 1) |-> "x"]

\* An extraction without and with interval metadata.
Ext(class_name, text) == Extraction(class_name, text, <<>>)
ExtAt(class_name, text, start) ==
    Extraction(class_name, text, <<start, start + Len(text)>>)

\* Families of related extractions, from which whole sequences are drawn.
Families ==
    { { Ext(Label.grantor, A), Ext(Label.grantor, B),
        ExtAt(Label.settlor, A, 7), Ext(Label.successor_grantor, A) },
      { Ext(Label.trustee, A), ExtAt(Label.trustee, B, 3),
        Ext(Label.successor_trustee, A), Ext(Label.successor_trustee, B) },
      { Ext(Label.primary_beneficiary, A), Ext(Label.primary_beneficiary, B),
        Ext(Label.lifetime_beneficiary, A), Ext(Label.beneficiary, B) },
      { Ext(Label.contingent_beneficiary, A), Ext(Label.contingent_beneficiary, B),
        Ext(Label.upon_death_beneficiary, A),
        Ext(Label.contingent_primary_beneficiary, B) },
      { Ext(Label.spendthrift_clause, A), Ext(Label.spendthrift_clause, <<>>),
        Ext(Label.no_contest_clause, B), Ext(Label.no_contest_clause, <<>>) },
      { Ext(Label.trustee_powers, A), Ext(Label.powers, B),
        Ext(Label.powers_of_trustee, A), Ext(Label.purpose, B) },
      { Ext(Label.notes, AtThreshold), Ext(Label.notes, OverThreshold),
        ExtAt(Label.Misc_Note, A, 2), Ext(Label.guardian, A) },
      { Ext(Label.trust_name, A), Ext(Label.trust_name, B),
        Ext(Label.distribution_advisor, A), Ext(Label.distribution, B) } }

Labels == {Label[k] : k \in DOMAIN Label}

\* Every label once, with a short, an empty and a long text.
Singles ==
    {<<Ext(l, t)>> : l \in Labels, t \in {A, <<>>, OverThreshold}}
        \cup {<<ExtAt(l, B, 11)>> : l \in Labels}

SeqsUpTo(S, n) == UNION {[1..k -> S] : k \in 0..n}

\* What result.extractions can be.
ExtractionSeqs == Singles \cup UNION {SeqsUpTo(F, MaxSpans) : F \in Families}

\* What main can read from stdin: text that is not JSON, JSON that is not an
\* object, or an object with or without api_key and document_text.
Requests ==
    {[json |-> "malformed", api_key |-> FALSE, document_text |-> FALSE],
     [json |-> "array", api_key |-> FALSE, document_text |-> FALSE]}
        \cup [json : {"object"}, api_key : BOOLEAN, document_text : BOOLEAN]

----------------------------------------------------------------------------
(* The request, step by step.                                              *)

Init ==
    /\ pc = "main"
    /\ request \in Requests
    /\ template = <<>>
    /\ params = [enabled |-> TRUE, default_value |-> Str(NotSpecified)]
    /\ extractions = <<>>
    /\ next_i = 0
    /\ structured_result = EmptyResult
    /\ response = NoResponse
    /\ raised = FALSE

\* Line 495: json.loads raises on text that is not JSON; lines 497-499:
\* input_data.get raises when the JSON value is not an object.  Neither is
\* inside a try.
MainParseFails ==
    /\ pc = "main"
    /\ request.json # "object"
    /\ raised' = TRUE
    /\ pc' = "exit"
    /\ UNCHANGED <<request, template, params, extractions, next_i,
                   structured_result, response>>

\* Lines 501-504, 509.
MainRejects ==
    /\ pc = "main"
    /\ request.json = "object"
    /\ ~request.api_key \/ ~request.document_text
    /\ response' = ValidationError
    /\ pc' = "exit"
    /\ UNCHANGED <<request, template, params, extractions, next_i,
                   structured_result, raised>>

\* Line 506.
MainCalls ==
    /\ pc = "main"
    /\ request.json = "object"
    /\ request.api_key /\ request.document_text
    /\ pc' = "load"
    /\ UNCHANGED <<request, template, params, extractions, next_i,
                   structured_result, response, raised>>

\* Lines 167-171: the three configuration files are read and parsed.
LoadConfig ==
    /\ pc = "load"
    /\ template' \in Templates
    /\ params' \in Params
    /\ pc' = "extract"
    /\ UNCHANGED <<request, extractions, next_i, structured_result,
                   response, raised>>

\* Lines 167-171 when a file is missing or is not JSON: open / json.load
\* raise before the try of line 181 is entered, so nothing catches it in
\* process_document, and main (line 506) has no try either.
LoadConfigFails ==
    /\ pc = "load"
    /\ raised' = TRUE
    /\ pc' = "exit"
    /\ UNCHANGED <<request, template, params, extractions, next_i,
                   structured_result, response>>

\* Lines 183-232: the engine returns its extractions, the fresh document
\* is created.
Extract ==
    /\ pc = "extract"
    /\ extractions' \in ExtractionSeqs
    /\ next_i' = 0
    /\ structured_result' = EmptyResult
    /\ pc' = "assemble"
    /\ UNCHANGED <<request, template, params, response, raised>>

\* Lines 183-192 raise (network, authentication, quota, malformed output),
\* or an extraction text is not a string and len() raises at line 212;
\* lines 274-280 catch it, and main prints the error (line 509).
ExtractFails ==
    /\ pc = "extract"
    /\ response' = CaughtError
    /\ pc' = "exit"
    /\ UNCHANGED <<request, template, params, extractions, next_i,
                   structured_result, raised>>

\* Lines 236-260: one pass of the assembly loop.
AssembleSpan ==
    /\ pc = "assemble"
    /\ next_i < Len(extractions)
    /\ structured_result' = AssembleOne(structured_result, extractions[next_i + 1])
    /\ next_i' = next_i + 1
    /\ UNCHANGED <<pc, request, template, params, extractions, response, raised>>

\* Lines 263-266, after the loop has ended.
Defaulting ==
    /\ pc = "assemble"
    /\ next_i = Len(extractions)
    /\ structured_result' =
           IF params.enabled
           THEN fill_missing_fields(structured_result, template,
                                    params.default_value)
           ELSE structured_result
    /\ pc' = "return"
    /\ UNCHANGED <<request, template, params, extractions, next_i,
                   response, raised>>

\* Lines 269-272 and 509.
ReturnResult ==
    /\ pc = "return"
    /\ response' = Success(structured_result)
    /\ pc' = "exit"
    /\ UNCHANGED <<request, template, params, extractions, next_i,
                   structured_result, raised>>

Next ==
    \/ MainParseFails
    \/ MainRejects
    \/ MainCalls
    \/ LoadConfig
    \/ LoadConfigFails
    \/ Extract
    \/ ExtractFails
    \/ AssembleSpan
    \/ Defaulting
    \/ ReturnResult

Spec == Init /\ [][Next]_vars

----------------------------------------------------------------------------
(* fill_missing_fields called directly, on any document, twice in a row.   *)

\* Sections a document can hold before the call: empty, with a present
\* non-empty field, with a present empty string, list or map, and with a
\* field no template declares.
BasicInformationSections ==
    { EmptySection,
      Put(EmptySection, "Trust_Name", Str(A)),
      Put(EmptySection, "Trust_Name", Str(<<>>)),
      Put(EmptySection, "Grantor(s)", List(<<A, B>>)),
      Put(EmptySection, "Grantor(s)", List(<<>>)),
      Put(EmptySection, "Schedules", Dict(<<>>)),
      Put(EmptySection, "Undeclared", Str(B)) }

SummarySections ==
    { EmptySection,
      Put(EmptySection, "Purpose_and_Intent", Str(<<>>)),
      Put(EmptySection, "Key_Dates", List(<<>>)),
      Put(EmptySection, "Other_Summary_Provisions", Dict(<<>>)),
      Put(EmptySection, "Other_Summary_Provisions",
          Dict(<<<<Label.notes, OverThreshold>>>>)) }

DetailsSections ==
    { EmptySection,
      Put(EmptySection, "Law_Firm", Str(<<>>)),
      Put(EmptySection, "Spendthrift_Provision", Str(Yes)),
      Put(EmptySection, "Other_Provisions", Dict(<<>>)),
      Put(EmptySection, "Co_Trustees", List(<<>>)) }

Documents ==
    [ Basic_Information : BasicInformationSections,
      Summary : SummarySections,
      Details : DetailsSections,
      citations : {<<>>, <<Citation(Ext(Label.grantor, A))>>} ]

\* A template that declares nothing.
EmptyTemplate == [s \in {} |-> EmptySection]

InitFill ==
    /\ pc = "fill"
    /\ request = [json |-> "object", api_key |-> TRUE, document_text |-> TRUE]
    /\ template \in Templates \cup {EmptyTemplate}
    /\ params \in [enabled : {TRUE}, default_value : {Str(NotSpecified), Str(<<>>)}]
    /\ extractions = <<>>
    /\ next_i = 0
    /\ structured_result \in Documents
    /\ response = NoResponse
    /\ raised = FALSE

\* fill_missing_fields(result, template, default_value), lines 460-490.
FillOnce ==
    /\ pc = "fill"
    /\ structured_result' =
           fill_missing_fields(structured_result, template, params.default_value)
    /\ pc' = "filled_once"
    /\ UNCHANGED <<request, template, params, extractions, next_i,
                   response, raised>>

\* The same call again, on the document the first call left.
FillTwice ==
    /\ pc = "filled_once"
    /\ structured_result' =
           fill_missing_fields(structured_result, template, params.default_value)
    /\ pc' = "filled_twice"
    /\ UNCHANGED <<request, template, params, extractions, next_i,
                   response, raised>>

NextFill ==
    \/ FillOnce
    \/ FillTwice

SpecFill == InitFill /\ [][NextFill]_vars

----------------------------------------------------------------------------
(* Properties.                                                             *)

Sections == {"Basic_Information", "Summary", "Details"}

\* The i-th extraction of the engine's result.
ClassName(i) == extractions[i].extraction_class
Text(i) == extractions[i].extraction_text
\* The branch each label of the input alphabet takes, computed once.
BranchTable == [class_name \in Labels |-> Branch(Normalize(class_name))]
BranchOf(i) == BranchTable[ClassName(i)]

\* s ends with suffix.
EndsWith(s, suffix) ==
    /\ Len(s) >= Len(suffix)
    /\ \A j \in 1..Len(suffix) : s[Len(s) - Len(suffix) + j] = suffix[j]

\* The open map holds text under key.
HasEntry(value, key, text) ==
    /\ value.kind = "dict"
    /\ \E i \in 1..Len(value.val) : value.val[i] = <<key, text>>

\* A stored value carries the span (class_name, text): it is the text, a
\* narrative ending with the text, the yes/no derived from it, a list
\* holding it, or an open map holding it under the original label.
Carries(value, class_name, text) ==
    \/ /\ value.kind = "str"
       /\ \/ value.val = text
          \/ EndsWith(value.val, Space \o text)
          \/ value.val = YesNo(text)
    \/ /\ value.kind = "list"
       /\ \E i \in 1..Len(value.val) : value.val[i] = text
    \/ HasEntry(value, class_name, text)

\* C1 (as claimed): total coverage of classification.  Once the assembly
\* loop has consumed a span, some field of Basic_Information, Summary or
\* Details carries that span's text (or its derived yes/no), whatever its
\* label is.
C1_EverySpanIsWritten ==
    (pc = "assemble" /\ next_i >= 1) =>
        \E s \in Sections : \E f \in DOMAIN structured_result[s] :
            Carries(structured_result[s][f], ClassName(next_i), Text(next_i))

\* A value is of the kind a template field type declares.
OfDeclaredKind(field_type, value) ==
    CASE field_type = "list" -> value.kind = "list"
      [] field_type = "yes_no" -> value.kind = "str" /\ value.val \in {Yes, No}
      [] field_type = "dict" -> value.kind = "dict"
      [] OTHER -> value.kind = "str"

\* C2 (as claimed): schema completeness.  After fill_missing_fields has run
\* on the assembled document, every field the template declares, in every
\* section, is present and holds a value of the declared kind.
C2_SchemaComplete ==
    (pc = "return" /\ params.enabled) =>
        \A s \in DOMAIN template : \A f \in DOMAIN template[s] :
            /\ f \in DOMAIN structured_result[s]
            /\ OfDeclaredKind(template[s][f], structured_result[s][f])

\* The value of a list field, <<>> when the field is absent.
ListValue(result, field) ==
    IF field \in DOMAIN result.Basic_Information
    THEN result.Basic_Information[field].val
    ELSE <<>>

\* C3 (as claimed): rule precedence for trustee powers.  Whenever the loop
\* consumes a span whose normalized label contains both "trustee" and
\* "powers", anywhere in the label, the text goes to
\* Summary.Trustee_Powers_and_Duties and neither Trustee(s) nor
\* Successor_Trustee(s) changes.
C3_TrusteePowersGoToNarrative ==
    [][ ( /\ pc = "assemble"
          /\ next_i' = next_i + 1
          /\ Contains(Normalize(ClassName(next_i')), Term.trustee)
          /\ Contains(Normalize(ClassName(next_i')), <<"p", "o", "w", "e", "r", "s">>) )
        =>
        ( /\ "Trustee_Powers_and_Duties" \in DOMAIN structured_result'.Summary
          /\ Carries(structured_result'.Summary["Trustee_Powers_and_Duties"],
                     ClassName(next_i'), Text(next_i'))
          /\ ListValue(structured_result', "Trustee(s)")
                 = ListValue(structured_result, "Trustee(s)")
          /\ ListValue(structured_result', "Successor_Trustee(s)")
                 = ListValue(structured_result, "Successor_Trustee(s)") ) ]_vars

\* C4 (as claimed): boolean derivation.  In the document returned, a
\* 'spendthrift_clause' span with non-empty text anywhere in the input gives
\* Details.Spendthrift_Provision = 'yes'; with no spendthrift span at all,
\* defaulting gives 'no'.
C4_SpendthriftYesWheneverNonEmptySpan ==
    (pc = "exit" /\ "transformed" \in response.keys) =>
        LET details == response.transformed.Details
            spans == 1..Len(extractions)
        IN  /\ (\E i \in spans : /\ ClassName(i) = Label.spendthrift_clause
                                 /\ Text(i) # <<>>)
                   => /\ "Spendthrift_Provision" \in DOMAIN details
                      /\ details["Spendthrift_Provision"] = Str(Yes)
            /\ ( /\ params.enabled
                 /\ \A i \in spans : BranchOf(i) # "Spendthrift_Provision" )
                   => /\ "Spendthrift_Provision" \in DOMAIN details
                      /\ details["Spendthrift_Provision"] = Str(No)

\* C5 (as claimed): failure containment.  When the request ends, no
\* exception has left main, a response has been printed, a failure response
\* carries 'error', and no response carries both an error and a document.
C5_NoFailureEscapes ==
    pc = "exit" =>
        /\ ~raised
        /\ response.keys # {}
        /\ ("error" \in response.keys) \/ ("transformed" \in response.keys)
        /\ ~(("error" \in response.keys) /\ ("transformed" \in response.keys))

\* The citation the i-th extraction must have produced.
MirrorsSpan(citation, i) ==
    /\ citation.citation_key = ClassName(i)
    /\ citation.full_text = Text(i)
    /\ citation.location =
           IF extractions[i].char_interval = <<>>
           THEN [start |-> 0, end |-> Len(Text(i))]
           ELSE [start |-> extractions[i].char_interval[1],
                 end |-> extractions[i].char_interval[2]]

NoWriteBranches == {"grantor_no_write", "beneficiary_no_write"}

\* C6: citations mirror the input.  While and after the loop runs, the
\* citations list has one entry per span consumed, the i-th entry carrying
\* the label, text and offsets of the i-th span (offsets (0, len(text))
\* without interval metadata), whatever branch the span took; the document
\* returned has one citation per span of the input.
C6_CitationsMirrorInput ==
    /\ pc \in {"assemble", "return"} =>
           /\ Len(structured_result.citations) = next_i
           /\ \A i \in 1..next_i : MirrorsSpan(structured_result.citations[i], i)
    /\ (pc = "exit" /\ "transformed" \in response.keys) =>
           /\ Len(response.transformed.citations) = Len(extractions)
           /\ \A i \in 1..Len(extractions) :
                  MirrorsSpan(response.transformed.citations[i], i)

\* C6 witness: a document is returned for three spans, one of which took a
\* branch that writes nothing and one of which has interval metadata.
C6_Witness ==
    /\ pc = "exit" /\ "transformed" \in response.keys
    /\ Len(extractions) = 3
    /\ \E i \in 1..3 : BranchOf(i) \in NoWriteBranches
    /\ \E i \in 1..3 : extractions[i].char_interval # <<>>

ListFields ==
    {"Grantor(s)", "Trustee(s)", "Successor_Trustee(s)",
     "Primary_Beneficiaries", "Contingent_Beneficiaries"}

\* The list field a branch appends to.
ListOfBranch(b) == IF b = "lifetime_beneficiary" THEN "Primary_Beneficiaries" ELSE b

\* The list field each of the first n spans is routed to ("" when none).
RoutedTo(n) ==
    [i \in 1..n |->
        LET b == ListOfBranch(BranchOf(i))
        IN  IF b \in ListFields THEN b ELSE ""]

\* The texts of the first n spans routed to a list field, in input order.
RECURSIVE RoutedTexts(_, _, _)
RoutedTexts(field, routes, n) ==
    IF n = 0 THEN <<>>
    ELSE IF routes[n] = field
         THEN Append(RoutedTexts(field, routes, n - 1), Text(n))
         ELSE RoutedTexts(field, routes, n - 1)

\* The distinct elements of a sequence, ordered by first occurrence.
RECURSIVE FirstOccurrences(_)
FirstOccurrences(s) ==
    IF s = <<>> THEN <<>>
    ELSE LET init == FirstOccurrences(SubSeq(s, 1, Len(s) - 1))
             last == s[Len(s)]
         IN  IF \E i \in 1..Len(init) : init[i] = last THEN init
             ELSE Append(init, last)

\* C7: list dedup.  For each of the five list fields, while and after the
\* loop runs, the list holds no string twice and is exactly the distinct
\* texts routed to it so far, ordered by first occurrence; a list nothing
\* was routed to is not created by the loop.
C7_ListsHoldFirstOccurrences ==
    pc \in {"assemble", "return"} =>
        LET routes == RoutedTo(next_i) IN
        \A field \in ListFields :
            LET routed == RoutedTexts(field, routes, next_i)
                section == structured_result.Basic_Information
            IN  IF routed = <<>>
                THEN pc = "assemble" => field \notin DOMAIN section
                ELSE /\ field \in DOMAIN section
                     /\ section[field].kind = "list"
                     /\ section[field].val = FirstOccurrences(routed)
                     /\ \A i, j \in 1..Len(section[field].val) :
                            section[field].val[i] = section[field].val[j] => i = j

\* C7 witness: three spans were routed to one list, the third repeating
\* the first, and the list holds the two distinct texts in input order.
C7_Witness ==
    /\ pc = "return"
    /\ \E field \in ListFields :
           /\ RoutedTexts(field, RoutedTo(next_i), next_i) = <<A, B, A>>
           /\ structured_result.Basic_Information[field] = List(<<A, B>>)

\* The value of an open map, <<>> when the field is absent.
MapValue(section, field) ==
    IF field \in DOMAIN section THEN section[field].val ELSE <<>>

\* C8: fallback routing.  Whenever the loop consumes a span whose label no
\* rule matches, a text longer than 100 characters is inserted under the
\* original label into Summary.Other_Summary_Provisions and Details is left
\* alone; a text of 100 characters or fewer is inserted under the original
\* label into Details.Other_Provisions and Summary is left alone.
C8_FallbackRouting ==
    [][ ( /\ pc = "assemble"
          /\ next_i' = next_i + 1
          /\ BranchOf(next_i') = "unmapped" )
        =>
        LET class_name == ClassName(next_i')
            text == Text(next_i')
            before == structured_result
            after == structured_result'
        IN  /\ after.Basic_Information = before.Basic_Information
            /\ IF Len(text) > 100
               THEN /\ "Other_Summary_Provisions" \in DOMAIN after.Summary
                    /\ HasEntry(after.Summary["Other_Summary_Provisions"],
                                class_name, text)
                    /\ after.Details = before.Details
               ELSE /\ "Other_Provisions" \in DOMAIN after.Details
                    /\ HasEntry(after.Details["Other_Provisions"], class_name, text)
                    /\ after.Summary = before.Summary ]_vars

\* C8 witness: the same unmatched label was consumed with a text of exactly
\* 100 characters and with one of 101; the first is in Details only, the
\* second in Summary only.
C8_Witness ==
    /\ pc = "return"
    /\ extractions = <<Ext(Label.notes, OverThreshold), ExtAt(Label.Misc_Note, A, 2),
                       Ext(Label.notes, AtThreshold)>>
    /\ Len(AtThreshold) = 100
    /\ MapValue(structured_result.Summary, "Other_Summary_Provisions")
           = <<<<Label.notes, OverThreshold>>>>
    /\ MapValue(structured_result.Details, "Other_Provisions")
           = <<<<Label.Misc_Note, A>>, <<Label.notes, AtThreshold>>>>

\* C9: defaulting preserves assembled data.  A call of fill_missing_fields
\* leaves every field that is present before the call with the value it
\* had, empty or not, adds only fields the template declares for that
\* section, and leaves the citations unchanged.
C9_FillPreservesPresentFields ==
    [][ /\ \A s \in Sections :
               /\ \A f \in DOMAIN structured_result[s] :
                      /\ f \in DOMAIN structured_result'[s]
                      /\ structured_result'[s][f] = structured_result[s][f]
               /\ \A f \in (DOMAIN structured_result'[s]) \ (DOMAIN structured_result[s]) :
                      s \in DOMAIN template /\ f \in DOMAIN template[s]
        /\ structured_result'.citations = structured_result.citations ]_vars

\* C9 witness: a call has run on a document that held an empty string, an
\* empty list and an empty map in fields the template declares, next to
\* absent declared fields; the empty values are still there and the absent
\* fields have their defaults.
C9_Witness ==
    /\ pc = "filled_once"
    /\ template = MixedTemplate
    /\ params.default_value = Str(NotSpecified)
    /\ structured_result.Summary["Purpose_and_Intent"] = Str(<<>>)
    /\ structured_result.Details["Co_Trustees"] = List(<<>>)
    /\ structured_result.Basic_Information["Schedules"] = Dict(<<>>)
    /\ structured_result.Basic_Information["Trust_Name"] = Str(NotSpecified)
    /\ Len(structured_result.citations) = 1

\* C10: idempotent defaulting.  The second of two successive calls of
\* fill_missing_fields changes nothing: the document after two calls is the
\* document after one.
C10_SecondFillChangesNothing ==
    [][ pc = "filled_once" => structured_result' = structured_result ]_vars

\* C10 witness: two calls have run, and the first one had fields to fill.
C10_Witness ==
    /\ pc = "filled_twice"
    /\ template = StandardTemplate
    /\ structured_result.Basic_Information["Trust_Type"] = params.default_value
    /\ structured_result.Basic_Information["Trustee(s)"] = List(<<>>)
    /\ structured_result.Details["No-Contest_Clause"] = Str(No)

\* The branches a label can take inside the beneficiary rule.
BeneficiaryBranches ==
    {"lifetime_beneficiary", "Contingent_Beneficiaries", "Primary_Beneficiaries",
     "beneficiary_no_write"}

\* The list the stated priority order gives a beneficiary label: lifetime or
\* during-grantor's-life first, then contingent, remainder or alternate,
\* then primary, initial or upon-death ("" when none of them applies).
StatedBeneficiaryList(n) ==
    IF is_lifetime(n) \/ Contains(n, Term.duringgrantorslife)
        THEN "Primary_Beneficiaries"
    ELSE IF ContainsAny(n, {Term.contingent, Term.remainder, Term.alternate})
        THEN "Contingent_Beneficiaries"
    ELSE IF ContainsAny(n, {Term.primary, Term.initial, Term.upondeath})
        THEN "Primary_Beneficiaries"
    ELSE ""

\* C11 (as claimed): beneficiary disambiguation priority.  Whenever the loop
\* consumes a span whose label reaches the beneficiary rule, its text is in
\* the list the stated order gives (an upon-death label without a
\* contingent, remainder or alternate term: Primary_Beneficiaries; a label
\* with a contingent term and 'primary': Contingent_Beneficiaries) and the
\* other beneficiary list is unchanged.
C11_BeneficiaryPriority ==
    [][ ( /\ pc = "assemble"
          /\ next_i' = next_i + 1
          /\ BranchOf(next_i') \in BeneficiaryBranches
          /\ StatedBeneficiaryList(Normalize(ClassName(next_i'))) # "" )
        =>
        LET stated == StatedBeneficiaryList(Normalize(ClassName(next_i')))
            other == IF stated = "Primary_Beneficiaries"
                     THEN "Contingent_Beneficiaries" ELSE "Primary_Beneficiaries"
            list == ListValue(structured_result', stated)
        IN  /\ \E i \in 1..Len(list) : list[i] = Text(next_i')
            /\ ListValue(structured_result', other)
                   = ListValue(structured_result, other) ]_vars

\* The exact-concept rules of the singleton scalar fields, in the stated
\* order: the substrings that select the rule, and the field it overwrites.
ExactConceptRules ==
    << [terms |-> {Term.trustname},
        section |-> "Basic_Information", field |-> "Trust_Name"],
       [terms |-> {Term.trusttype},
        section |-> "Basic_Information", field |-> "Trust_Type"],
       [terms |-> {Term.effectivedate, Term.trustdate},
        section |-> "Basic_Information", field |-> "Effective_Date"],
       [terms |-> {Term.taxid, Term.ein},
        section |-> "Details", field |-> "Trust_Tax_ID/EIN"],
       [terms |-> {Term.stateofformation, Term.governinglaw},
        section |-> "Details", field |-> "State_of_Formation"],
       [terms |-> {Term.trustprotector},
        section |-> "Details", field |-> "Trust_Protector"],
       [terms |-> {Term.investmentadvisor},
        section |-> "Details", field |-> "Investment_Advisor"],
       [terms |-> {Term.distributionadvisor},
        section |-> "Details", field |-> "Distribution_Advisor"],
       [terms |-> {Term.gsttax, Term.gstplanning},
        section |-> "Details", field |-> "GST_Tax_Planning"],
       [terms |-> {Term.maritaldeduction},
        section |-> "Details", field |-> "Marital_Deduction"],
       [terms |-> {Term.lawfirm},
        section |-> "Details", field |-> "Law_Firm"],
       [terms |-> {Term.trustsitus, Term.situs},
        section |-> "Details", field |-> "Trust_Situs"] >>

\* The exact-concept rules whose substring a normalized label contains.
MatchingExactConcepts(n) ==
    {k \in 1..Len(ExactConceptRules) : ContainsAny(n, ExactConceptRules[k].terms)}

\* The first of them, in the stated order.
FirstExactConcept(n) ==
    ExactConceptRules[CHOOSE k \in MatchingExactConcepts(n) :
                          \A j \in MatchingExactConcepts(n) : k <= j]

\* Two documents agree on every field but result[section][field].
SameExcept(before, after, section, field) ==
    \A s \in Sections :
        /\ (DOMAIN after[s]) \ {field} = (DOMAIN before[s]) \ {field}
        /\ \A f \in DOMAIN before[s] :
               (s # section \/ f # field) =>
                   (f \in DOMAIN after[s] /\ after[s][f] = before[s][f])
        /\ s # section => DOMAIN after[s] = DOMAIN before[s]

\* C12 (as claimed): exact-concept rules come first.  Whenever the loop
\* consumes a span whose normalized label contains the substring of a
\* singleton scalar field, that scalar field is overwritten with the text
\* and no other field changes: no role list and no narrative field claims
\* the span ('distribution_advisor' writes Details.Distribution_Advisor and
\* leaves Summary.Distribution_Provisions alone).
C12_ExactConceptFirst ==
    [][ ( /\ pc = "assemble"
          /\ next_i' = next_i + 1
          /\ MatchingExactConcepts(Normalize(ClassName(next_i'))) # {} )
        =>
        LET rule == FirstExactConcept(Normalize(ClassName(next_i')))
            after == structured_result'
        IN  /\ rule.field \in DOMAIN after[rule.section]
            /\ after[rule.section][rule.field] = Str(Text(next_i'))
            /\ SameExcept(structured_result, after, rule.section, rule.field) ]_vars

====
